---- MODULE Spec2Model ----
(***************************************************************************)
(* A model of the lighthouse MQTT broker's CONNECT codec                   *)
(* (internal/packet/connect.go) and of its TCP accept loop                 *)
(* (internal/server/server.go).                                            *)
(*                                                                         *)
(* Bytes are the naturals 0..255, byte strings are sequences of bytes.     *)
(* Durations are in milliseconds.                                          *)
(***************************************************************************)
EXTENDS Integers, Sequences, FiniteSets, TLC

VARIABLES
    pc,         \* position of the connection under study: idle, wire, decoded, acked
    src,        \* who produced the bytes on the wire: none, client (Encode), peer (raw)
    pkt,        \* the Connect handed to Connect.Encode (NilConnect when src # client)
    raw,        \* the structured description of the bytes a peer sent (RawNone otherwise)
    wire,       \* the bytes the server's reader holds
    res,        \* what NewConnect returned: [err, c, r]
    ackIn,      \* the arguments of NewConnackPacket: [cd, sessionReuse]
    ack,        \* the Connack built by NewConnackPacket
    spc,        \* ServeTCP's position: accept, sleep, returned
    tempDelay,  \* ServeTCP's local tempDelay (ms)
    slept,      \* the duration of the last time.Sleep (ms), 0 when none
    runLen,     \* temporary errors since the last Accept that was not one (saturates)
    lastAccept, \* outcome of the last Accept call: none, ok, temporary, fatal
    closes,     \* how many times tcpListener.Close was called
    accepted,   \* the connections Accept returned
    clients,    \* the clients created by newClient, in creation order
    bpc,        \* position of the binary primitives' exercise: idle, written, cut, read
    bval,       \* the value handed to a Write of package binary: [kind, u, w, b, s]
    bw,         \* the writer after the Write and the error it returned: [err, w]
    bbuf,       \* the bytes the reader of the Read holds
    bcut,       \* whether bytes were cut off the end of what was written
    bread       \* what the Read returned: [err, u, w, b, s, r]

cvars == <<pc, src, pkt, raw, wire, res, ackIn, ack>>
svars == <<spc, tempDelay, slept, runLen, lastAccept, closes, accepted, clients>>
bvars == <<bpc, bval, bw, bbuf, bcut, bread>>
vars == <<pc, src, pkt, raw, wire, res, ackIn, ack,
          spc, tempDelay, slept, runLen, lastAccept, closes, accepted, clients,
          bpc, bval, bw, bbuf, bcut, bread>>

----------------------------------------------------------------------------
(* Bounds of the model *)

\* Longest ClientId drawn (ClientIds are "", "c", "cc", ...).
MaxIdLen == 1
\* Connections Accept may return in one run of ServeTCP.
MaxConns == 3
\* Saturation point of the ghost counter runLen.
MaxRun == 10
\* Most bytes of a following packet on the reader behind a CONNECT.
MaxTail == 2
\* Longest byte string handed to WriteString.
MaxStrLen == 2

----------------------------------------------------------------------------
(* Helpers on byte strings *)

Take(s, n) == SubSeq(s, 1, n)
Drop(s, n) == SubSeq(s, n + 1, Len(s))
Bit(b, k) == (b \div (2 ^ k)) % 2
Min(a, b) == IF a < b THEN a ELSE b

----------------------------------------------------------------------------
(* Errors *)

Nil == "nil"
ErrMalformed == "ErrMalformed"
ErrV3UnacceptableProtocolVersion == "ErrV3UnacceptableProtocolVersion"
ErrV3IdentifierRejected == "ErrV3IdentifierRejected"
\* the two errors of io.ReadFull
EOF == "EOF"
ErrUnexpectedEOF == "ErrUnexpectedEOF"

----------------------------------------------------------------------------
(* Program constants *)

CONNECT == 1
FixedHeaderFlagReserved == 0

Version31 == 3
Version311 == 4
Version5 == 5

MQTT == <<77, 81, 84, 84>>
MQIsdp == <<77, 81, 73, 115, 100, 112>>

version2protocolName == (Version31 :> MQIsdp) @@ (Version311 :> MQTT) @@ (Version5 :> MQTT)

IsVersion3(v) == v = Version31 \/ v = Version311

ProtocolNamePrefix == <<0, 4>>

CleanSessionTure == 2
willFlagTure == 4
willQos1 == 8
WillQos2 == 16
willRetainTrue == 32
passwordFlagTrue == 64
usernameFlagTrue == 128

Success == 0

----------------------------------------------------------------------------
(* Binary primitives of package packet *)

\* A byte string is accepted as UTF-8 text when it holds neither U+0000 nor a
\* byte that never occurs in UTF-8.  The byte strings of this model are built
\* from ASCII letters, 0x00 and 0xFF only, for which this is exact.
ValidUTF8(s) == \A i \in 1..Len(s) : s[i] >= 1 /\ s[i] <= 127

\* writeUint16: the two big-endian bytes of v.
writeUint16(v) == <<(v \div 256) % 256, v % 256>>

\* readUint16: [err, v, buf], Malformed when fewer than two bytes remain.
readUint16(buf) ==
    IF Len(buf) < 2
    THEN [err |-> ErrMalformed, v |-> 0, buf |-> buf]
    ELSE [err |-> Nil, v |-> buf[1] * 256 + buf[2], buf |-> Drop(buf, 2)]

\* UTF8EncodedStrings: [err, b], the 2-byte big-endian length, then the bytes.
UTF8EncodedStrings(data) ==
    IF Len(data) > 65535 \/ ~ValidUTF8(data)
    THEN [err |-> ErrMalformed, b |-> <<>>]
    ELSE [err |-> Nil, b |-> writeUint16(Len(data)) \o data]

\* UTF8DecodedStrings: [err, b, buf]; reads the length prefix, then that many
\* bytes, and validates them when mustUTF8.
UTF8DecodedStrings(mustUTF8, buf) ==
    IF Len(buf) < 2
    THEN [err |-> ErrMalformed, b |-> <<>>, buf |-> buf]
    ELSE LET length == buf[1] * 256 + buf[2]
             rest == Drop(buf, 2)
         IN  IF Len(rest) < length
             THEN [err |-> ErrMalformed, b |-> <<>>, buf |-> rest]
             ELSE IF mustUTF8 /\ ~ValidUTF8(Take(rest, length))
             THEN [err |-> ErrMalformed, b |-> <<>>, buf |-> Drop(rest, length)]
             ELSE [err |-> Nil, b |-> Take(rest, length), buf |-> Drop(rest, length)]

----------------------------------------------------------------------------
(* Fixed header *)

\* The variable-byte integer: 7 bits per byte, least significant group first,
\* bit 7 set on every byte but the last.
RECURSIVE EncodeVBI(_)
EncodeVBI(n) ==
    IF n < 128 THEN <<n>> ELSE <<(n % 128) + 128>> \o EncodeVBI(n \div 128)

RECURSIVE DecodeVBI(_, _, _, _)
DecodeVBI(buf, i, mult, acc) ==
    IF i > 4 \/ Len(buf) < i
    THEN [err |-> ErrMalformed, v |-> 0, buf |-> <<>>]
    ELSE IF buf[i] < 128
    THEN [err |-> Nil, v |-> acc + buf[i] * mult, buf |-> Drop(buf, i)]
    ELSE DecodeVBI(buf, i + 1, mult * 128, acc + (buf[i] - 128) * mult)

\* encode: the fixed header (type and flags byte, RemainLength as a
\* variable-byte integer computed from the buffered body), then the body.
encode(fixedHeader, buf) ==
    <<fixedHeader.PacketType * 16 + fixedHeader.Flags>> \o EncodeVBI(Len(buf)) \o buf

\* The reader of the fixed header: [err, fh, r].
ReadFixedHeader(r) ==
    LET none == [PacketType |-> 0, Flags |-> 0, RemainLength |-> 0] IN
    IF Len(r) < 1
    THEN [err |-> EOF, fh |-> none, r |-> r]
    ELSE LET n == DecodeVBI(Tail(r), 1, 1, 0) IN
         IF n.err # Nil
         THEN [err |-> n.err, fh |-> none, r |-> <<>>]
         ELSE [err |-> Nil,
               fh |-> [PacketType |-> r[1] \div 16, Flags |-> r[1] % 16,
                       RemainLength |-> n.v],
               r |-> n.buf]

----------------------------------------------------------------------------
(* Connect *)

ConnectHeader == [PacketType |-> CONNECT, Flags |-> FixedHeaderFlagReserved, RemainLength |-> 0]

\* The zero value of the Connect struct (nil byte slices are empty strings).
NilConnect ==
    [Version |-> 0, FixedHeader |-> [PacketType |-> 0, Flags |-> 0, RemainLength |-> 0],
     ProtocolName |-> <<>>, ProtocolLevel |-> 0,
     CleanSession |-> FALSE, WillFlag |-> FALSE, WillQoS |-> 0, WillRetain |-> FALSE,
     PasswordFlag |-> FALSE, UsernameFlag |-> FALSE, KeepAlive |-> 0,
     WillTopic |-> <<>>, WillMessage |-> <<>>,
     ClientId |-> <<>>, Username |-> <<>>, Password |-> <<>>]

\* The connect-flags byte Encode builds (the bits are disjoint, so | is +).
EncodeConnectFlags(c) ==
      (IF c.UsernameFlag THEN usernameFlagTrue ELSE 0)
    + (IF c.PasswordFlag THEN passwordFlagTrue ELSE 0)
    + (IF c.WillRetain THEN willRetainTrue ELSE 0)
    + (IF c.WillFlag THEN willFlagTure ELSE 0)
    + (IF c.WillQoS = 1 THEN willQos1 ELSE IF c.WillQoS = 2 THEN WillQos2 ELSE 0)
    + (IF c.CleanSession THEN CleanSessionTure ELSE 0)

\* The name written by Encode: the fixed prefix 0x00 0x04, then the name's bytes.
EncodeProtocolName(c) == ProtocolNamePrefix \o c.ProtocolName

\* Connect.Encode: [err, out], out the bytes written to w.
Encode(c) ==
    LET head == EncodeProtocolName(c) \o <<c.ProtocolLevel>>
                \o <<EncodeConnectFlags(c)>> \o writeUint16(c.KeepAlive)
        cid == UTF8EncodedStrings(c.ClientId)
        wt == UTF8EncodedStrings(c.WillTopic)
        wm == UTF8EncodedStrings(c.WillMessage)
        un == UTF8EncodedStrings(c.Username)
        pw == UTF8EncodedStrings(c.Password)
    IN  IF cid.err # Nil THEN [err |-> cid.err, out |-> <<>>]
        ELSE IF c.WillFlag /\ wt.err # Nil THEN [err |-> wt.err, out |-> <<>>]
        ELSE IF c.WillFlag /\ wm.err # Nil THEN [err |-> wm.err, out |-> <<>>]
        ELSE IF c.UsernameFlag /\ un.err # Nil THEN [err |-> un.err, out |-> <<>>]
        ELSE IF c.PasswordFlag /\ pw.err # Nil THEN [err |-> pw.err, out |-> <<>>]
        ELSE [err |-> Nil,
              out |-> encode(c.FixedHeader,
                         head \o cid.b
                         \o (IF c.WillFlag THEN wt.b \o wm.b ELSE <<>>)
                         \o (IF c.UsernameFlag THEN un.b ELSE <<>>)
                         \o (IF c.PasswordFlag THEN pw.b ELSE <<>>))]

\* Decoding threads a record [err, c, buf, r] through the reads in the order
\* of the code: c the packet as assigned so far, buf the bytes of the body
\* not read yet, r what the reader still holds, err the error returned (each
\* step after an error is the code's early return).

\* IdentifierRejected with the check made for version 3.1.1 alone.
IdentifierRejectedOnly311(c) ==
    c.Version = Version311 /\ Len(c.ClientId) = 0 /\ ~c.CleanSession

\* The identifier check of decodePayload [MQTT-3.1.3-7].
IdentifierRejected(c) ==
    IsVersion3(c.Version) /\ Len(c.ClientId) = 0 /\ ~c.CleanSession

\* decodePayload: ClientId, then the identifier check.
readClientId(st) ==
    IF st.err # Nil THEN st
    ELSE LET x == UTF8DecodedStrings(TRUE, st.buf) IN
         [st EXCEPT !.err = IF x.err # Nil THEN x.err
                            ELSE IF IdentifierRejected([st.c EXCEPT !.ClientId = x.b])
                            THEN ErrV3IdentifierRejected ELSE Nil,
                    !.c.ClientId = x.b, !.buf = x.buf]

\* decodePayload: WillTopic, when WillFlag.
readWillTopic(st) ==
    IF st.err # Nil \/ ~st.c.WillFlag THEN st
    ELSE LET x == UTF8DecodedStrings(TRUE, st.buf) IN
         [st EXCEPT !.err = x.err, !.c.WillTopic = x.b, !.buf = x.buf]

\* decodePayload: WillMessage, when WillFlag.
readWillMessage(st) ==
    IF st.err # Nil \/ ~st.c.WillFlag THEN st
    ELSE LET x == UTF8DecodedStrings(TRUE, st.buf) IN
         [st EXCEPT !.err = x.err, !.c.WillMessage = x.b, !.buf = x.buf]

\* decodePayload: Username, when UsernameFlag.
readUsername(st) ==
    IF st.err # Nil \/ ~st.c.UsernameFlag THEN st
    ELSE LET x == UTF8DecodedStrings(TRUE, st.buf) IN
         [st EXCEPT !.err = x.err, !.c.Username = x.b, !.buf = x.buf]

\* decodePayload: Password, when PasswordFlag.
readPassword(st) ==
    IF st.err # Nil \/ ~st.c.PasswordFlag THEN st
    ELSE LET x == UTF8DecodedStrings(TRUE, st.buf) IN
         [st EXCEPT !.err = x.err, !.c.Password = x.b, !.buf = x.buf]

\* Connect.decodePayload.
decodePayload(st) ==
    readPassword(readUsername(readWillMessage(readWillTopic(readClientId(st)))))

\* ReservedBit with the mask of the neighbouring bit (2 & connectFlags).
ReservedBitWrongMask(connectFlags) == 2 * Bit(connectFlags, 1)

\* The reserved bit of the connect-flags byte [MQTT-3.1.2-3].
ReservedBit(connectFlags) == connectFlags % 2

\* WillRetainWithoutWill with the test of WillQoS carried over from the check before it.
WillRetainWithoutWillAndQoS(c) == ~c.WillFlag /\ c.WillRetain /\ c.WillQoS # 0

\* The two Will checks of Decode [MQTT-3.1.2-11].
WillQoSWithoutWill(c) == ~c.WillFlag /\ c.WillQoS # 0
WillRetainWithoutWill(c) == ~c.WillFlag /\ c.WillRetain

\* Whether Decode knows the protocol level.
VersionSupported(v) == v \in DOMAIN version2protocolName

\* Decode: io.ReadFull of RemainLength bytes into restBuffer.
\* io.ReadFull that drains the reader.
readFullDrains(c, r) ==
    IF Len(r) < c.FixedHeader.RemainLength
    THEN [err |-> IF Len(r) = 0 THEN EOF ELSE ErrUnexpectedEOF, c |-> c, buf |-> <<>>, r |-> <<>>]
    ELSE [err |-> Nil, c |-> c, buf |-> Take(r, c.FixedHeader.RemainLength), r |-> <<>>]

readFull(c, r) ==
    IF Len(r) < c.FixedHeader.RemainLength
    THEN \* EOF when nothing could be read, ErrUnexpectedEOF otherwise
         [err |-> IF Len(r) = 0 THEN EOF ELSE ErrUnexpectedEOF,
          c |-> c, buf |-> <<>>, r |-> <<>>]
    ELSE [err |-> Nil, c |-> c,
          buf |-> Take(r, c.FixedHeader.RemainLength),
          r |-> Drop(r, c.FixedHeader.RemainLength)]

\* Decode: the protocol name.
readProtocolName(st) ==
    IF st.err # Nil THEN st
    ELSE LET x == UTF8DecodedStrings(TRUE, st.buf) IN
         IF x.err # Nil THEN [st EXCEPT !.err = x.err, !.buf = x.buf]
         ELSE [st EXCEPT !.c.ProtocolName = x.b, !.buf = x.buf]

\* Decode: the protocol level and the version it names.
readProtocolLevel(st) ==
    IF st.err # Nil THEN st
    ELSE IF Len(st.buf) = 0 THEN [st EXCEPT !.err = ErrMalformed]
    ELSE [st EXCEPT !.c.ProtocolLevel = st.buf[1], !.c.Version = st.buf[1],
                    !.buf = Tail(st.buf),
                    !.err = IF VersionSupported(st.buf[1]) THEN Nil
                            ELSE ErrV3UnacceptableProtocolVersion]

\* The packet after the connect-flags byte was taken apart, up to WillQoS.
WithWillQoS(c, connectFlags) ==
    [c EXCEPT !.CleanSession = Bit(connectFlags, 1) > 0,
              !.WillFlag = Bit(connectFlags, 2) > 0,
              !.WillQoS = (connectFlags \div 8) % 4]

\* The packet after the connect-flags byte was taken apart, up to WillRetain.
WithWillRetain(c, connectFlags) ==
    [WithWillQoS(c, connectFlags) EXCEPT !.WillRetain = Bit(connectFlags, 5) > 0]

\* The packet after the whole connect-flags byte was taken apart.
WithConnectFlags(c, connectFlags) ==
    [WithWillRetain(c, connectFlags) EXCEPT
        !.PasswordFlag = Bit(connectFlags, 6) > 0,
        !.UsernameFlag = Bit(connectFlags, 7) > 0]

\* Decode: the connect-flags byte and its checks.
readConnectFlags(st) ==
    IF st.err # Nil THEN st
    ELSE IF Len(st.buf) = 0 THEN [st EXCEPT !.err = ErrMalformed]
    ELSE IF ReservedBit(st.buf[1]) # 0
    THEN [st EXCEPT !.err = ErrMalformed, !.buf = Tail(st.buf)]
    ELSE IF WillQoSWithoutWill(WithWillQoS(st.c, st.buf[1]))
    THEN [st EXCEPT !.err = ErrMalformed, !.buf = Tail(st.buf),
                    !.c = WithWillQoS(st.c, st.buf[1])]
    ELSE IF WillRetainWithoutWill(WithWillRetain(st.c, st.buf[1]))
    THEN [st EXCEPT !.err = ErrMalformed, !.buf = Tail(st.buf),
                    !.c = WithWillRetain(st.c, st.buf[1])]
    ELSE [st EXCEPT !.buf = Tail(st.buf), !.c = WithConnectFlags(st.c, st.buf[1])]

\* Decode: KeepAlive.
readKeepAlive(st) ==
    IF st.err # Nil THEN st
    ELSE LET x == readUint16(st.buf) IN
         [st EXCEPT !.err = x.err, !.c.KeepAlive = x.v, !.buf = x.buf]

\* Connect.Decode: [err, c, buf, r].
Decode(c, r) ==
    decodePayload(readKeepAlive(readConnectFlags(readProtocolLevel(
        readProtocolName(readFull(c, r))))))

\* What NewConnect returns for Decode's result d.
NewConnectResult(d) ==
    IF d.err # Nil
    THEN [err |-> d.err, c |-> NilConnect, r |-> d.r]
    ELSE [err |-> Nil, c |-> d.c, r |-> d.r]

\* NewConnect: [err, c, r]; c is NilConnect where the code returns a nil *Connect.
NewConnect(fixedHeader, version, r) ==
    IF fixedHeader.Flags # FixedHeaderFlagReserved
    THEN [err |-> ErrMalformed, c |-> NilConnect, r |-> r]
    ELSE NewConnectResult(
            Decode([NilConnect EXCEPT !.FixedHeader = fixedHeader, !.Version = version], r))

\* NewConnackPacket without the test of the reason code.
NewConnackPacketAnyCode(c, cd, sessionReuse) ==
    [Code |-> cd, Version |-> c.Version,
     SessionPresent |-> (~c.CleanSession /\ sessionReuse)]

\* Connect.NewConnackPacket.
NewConnackPacket(c, cd, sessionReuse) ==
    [Code |-> cd, Version |-> c.Version,
     SessionPresent |-> (~c.CleanSession /\ sessionReuse /\ cd = Success)]

----------------------------------------------------------------------------
(* The inputs drawn *)

RECURSIVE Repeat(_, _)
Repeat(b, n) == IF n = 0 THEN <<>> ELSE <<b>> \o Repeat(b, n - 1)

\* "", "c", "cc", ...
ClientIds == {Repeat(99, n) : n \in 0..MaxIdLen}

WillTopicT == <<116>>
WillMessageM == <<109>>
UsernameU == <<117>>
PasswordP == <<112>>

KeepAlives == {0, 258}
ReasonCodes == {Success, 2, 135}

SupportedPairs == {<<MQIsdp, Version31>>, <<MQTT, Version311>>, <<MQTT, Version5>>}

\* The well-formed Connect packets handed to Encode: a supported name and
\* level, WillQoS in 0..2 and no Will QoS or Will Retain without a Will, and
\* the Will, Username and Password fields present exactly when flagged.
Packets ==
    {[NilConnect EXCEPT
        !.FixedHeader = ConnectHeader,
        !.Version = nl[2], !.ProtocolName = nl[1], !.ProtocolLevel = nl[2],
        !.CleanSession = cs, !.WillFlag = w[1], !.WillQoS = w[2], !.WillRetain = w[3],
        !.UsernameFlag = uf, !.PasswordFlag = pf, !.KeepAlive = ka,
        !.ClientId = cid,
        !.WillTopic = IF w[1] THEN WillTopicT ELSE <<>>,
        !.WillMessage = IF w[1] THEN WillMessageM ELSE <<>>,
        !.Username = IF uf THEN UsernameU ELSE <<>>,
        !.Password = IF pf THEN PasswordP ELSE <<>>] :
      nl \in SupportedPairs, cs \in BOOLEAN,
      w \in {<<FALSE, 0, FALSE>>} \cup ({TRUE} \X (0..2) \X BOOLEAN),
      uf \in BOOLEAN, pf \in BOOLEAN, ka \in KeepAlives, cid \in ClientIds}

\* A length-prefixed string as a correct peer writes it.
Str(s) == writeUint16(Len(s)) \o s

\* The body of a CONNECT as a peer writes it: every field the flags byte
\* announces is there, whatever the name, the level and the flags are.
RawBody(name, level, flags, cid) ==
    Str(name) \o <<level, flags>> \o <<0, 60>> \o Str(cid)
    \o (IF Bit(flags, 2) = 1 THEN Str(WillTopicT) \o Str(WillMessageM) ELSE <<>>)
    \o (IF Bit(flags, 7) = 1 THEN Str(UsernameU) ELSE <<>>)
    \o (IF Bit(flags, 6) = 1 THEN Str(PasswordP) ELSE <<>>)

\* What a peer sends: the fixed header announces remain bytes of body with
\* the flags hdrFlags, and held bytes are on the reader behind the fixed
\* header: bytes of the body, then the bytes tail of what follows it.
MkRaw(name, level, flags, cid, hdrFlags, remain, held) ==
    [name |-> name, level |-> level, flags |-> flags, cid |-> cid,
     hdrFlags |-> hdrFlags, remain |-> remain, held |-> held,
     len |-> Len(RawBody(name, level, flags, cid)), tail |-> <<>>]

\* The first t bytes of the packet a peer sends next (a DISCONNECT).
NextPacket(t) == [i \in 1..t |-> IF i = 1 THEN 224 ELSE 0]

\* The whole body is on the reader with t more bytes behind it, and the
\* fixed header announces remain bytes.
MkFramed(name, level, flags, cid, remain, t) ==
    [MkRaw(name, level, flags, cid, 0, remain, Len(RawBody(name, level, flags, cid)) + t)
        EXCEPT !.tail = NextPacket(t)]

RawNone == MkRaw(<<>>, 0, 0, <<>>, 0, 0, 0)

RawNames == {MQTT, MQIsdp, <<77, 81, 84, 88>>}
RawLevels == {3, 4, 5, 6}
\* clean only; clean + will; neither; clean + will(QoS 1) + username + password;
\* clean + the reserved bit
TruncFlags == {2, 6, 0, 206, 3}

\* Complete packets: every name, level and connect-flags byte.
RawFull ==
    {MkRaw(n, l, f, cid, 0, Len(RawBody(n, l, f, cid)), Len(RawBody(n, l, f, cid))) :
        n \in RawNames, l \in RawLevels, f \in 0..255, cid \in ClientIds}

\* Packets whose body ends early (remain = held < len) and packets of which
\* the reader holds less than the fixed header announces (held < remain = len).
RawTruncated ==
    UNION {
        LET len == Len(RawBody(nl[1], nl[2], f, cid)) IN
            {MkRaw(nl[1], nl[2], f, cid, 0, k, k) : k \in 0..(len - 1)}
            \cup {MkRaw(nl[1], nl[2], f, cid, 0, len, k) : k \in 0..(len - 1)} :
        nl \in SupportedPairs, f \in TruncFlags, cid \in ClientIds}

\* Complete packets with non-reserved fixed-header flags.
RawHdrFlags ==
    {MkRaw(nl[1], nl[2], f, cid, hf, Len(RawBody(nl[1], nl[2], f, cid)),
           Len(RawBody(nl[1], nl[2], f, cid))) :
        nl \in SupportedPairs, f \in TruncFlags, cid \in ClientIds, hf \in 1..15}

\* Complete packets whose ClientId is not UTF-8 text.
RawBadText ==
    {MkRaw(nl[1], nl[2], 2, cid, 0, Len(RawBody(nl[1], nl[2], 2, cid)),
           Len(RawBody(nl[1], nl[2], 2, cid))) :
        nl \in SupportedPairs, cid \in {<<0>>, <<255>>}}

\* Readers that hold at least what the fixed header announces, of every
\* supported pair and of an unsupported level: the announced length ends
\* inside the body, at its end, or up to t bytes behind its last field.
RawFramed ==
    UNION {
        {MkFramed(nl[1], nl[2], f, cid, k, t) :
            k \in 0..(Len(RawBody(nl[1], nl[2], f, cid)) + t)} :
        nl \in SupportedPairs \cup {<<MQTT, 6>>}, f \in TruncFlags, cid \in ClientIds,
        t \in 0..MaxTail}

RawInputs == RawFull \cup RawTruncated \cup RawHdrFlags \cup RawBadText \cup RawFramed

\* The bytes behind the fixed header on the reader of a raw input.
OnReader(x) ==
    Take(RawBody(x.name, x.level, x.flags, x.cid), Min(x.held, x.len)) \o x.tail

\* The bytes of a raw input as they reach the server's reader.
RawWire(x) ==
    <<CONNECT * 16 + x.hdrFlags>> \o EncodeVBI(x.remain) \o OnReader(x)

----------------------------------------------------------------------------
(* The connection under study *)

NoRes == [err |-> Nil, c |-> NilConnect, r |-> <<>>]
NoAckIn == [cd |-> Success, sessionReuse |-> FALSE]
NoAck == [Code |-> Success, Version |-> 0, SessionPresent |-> FALSE]

\* A client encodes a Connect and the bytes reach the server.
ClientEncode ==
    /\ pc = "idle"
    /\ \E p \in Packets :
         /\ Encode(p).err = Nil
         /\ pkt' = p
         /\ wire' = Encode(p).out
    /\ src' = "client"
    /\ pc' = "wire"
    /\ UNCHANGED <<raw, res, ackIn, ack>>

\* A peer writes bytes of its own making.
PeerSend ==
    /\ pc = "idle"
    /\ \E x \in RawInputs :
         /\ raw' = x
         /\ wire' = RawWire(x)
    /\ src' = "peer"
    /\ pc' = "wire"
    /\ UNCHANGED <<pkt, res, ackIn, ack>>

\* The dispatch on the fixed header h read from the reader: a CONNECT goes
\* to NewConnect.
Dispatch(h) ==
    /\ h.err = Nil
    /\ h.fh.PacketType = CONNECT
    /\ res' = NewConnect(h.fh, 0, h.r)

\* The server reads the fixed header and hands the reader to NewConnect.
ServerNewConnect ==
    /\ pc = "wire"
    /\ Dispatch(ReadFixedHeader(wire))
    /\ wire' = res'.r
    /\ pc' = "decoded"
    /\ UNCHANGED <<src, pkt, raw, ackIn, ack>>

\* The server answers an accepted CONNECT.
ServerConnack ==
    /\ pc = "decoded"
    /\ res.err = Nil
    /\ \E cd \in ReasonCodes, sessionReuse \in BOOLEAN :
         /\ ackIn' = [cd |-> cd, sessionReuse |-> sessionReuse]
         /\ ack' = NewConnackPacket(res.c, cd, sessionReuse)
    /\ pc' = "acked"
    /\ UNCHANGED <<src, pkt, raw, wire, res>>

----------------------------------------------------------------------------
(* ServeTCP, the accept loop *)

\* The first delay and the cap of the backoff, in milliseconds.
FirstDelay == 5
MaxDelay == 1000

\* tempDelay after one more temporary error.
NextDelay(d) ==
    LET x == IF d = 0 THEN FirstDelay ELSE d * 2
    IN  IF x > MaxDelay THEN MaxDelay ELSE x

\* Spawn where every goroutine gets the first connection accepted.
SpawnFirstConn(cs, conn) == Append(cs, [conn |-> 1, st |-> "listening"])

\* newClient(s, accept) and goroutine.Go(c.listen): one more client, made
\* for conn, whose listen loop runs on its own.
Spawn(cs, conn) == Append(cs, [conn |-> conn, st |-> "listening"])

\* Accept returns a connection: a client is created for it, its listen loop
\* is started, and the loop calls Accept again.
AcceptOk ==
    /\ spc = "accept"
    /\ Cardinality(accepted) < MaxConns
    /\ accepted' = accepted \cup {Cardinality(accepted) + 1}
    /\ clients' = Spawn(clients, Cardinality(accepted) + 1)
    /\ lastAccept' = "ok"
    /\ runLen' = 0
    /\ UNCHANGED <<spc, tempDelay, slept, closes>>

\* Accept returns a temporary error: the delay is stepped and slept.
AcceptTemporary ==
    /\ spc = "accept"
    /\ tempDelay' = NextDelay(tempDelay)
    /\ slept' = tempDelay'
    /\ spc' = "sleep"
    /\ lastAccept' = "temporary"
    /\ runLen' = Min(runLen + 1, MaxRun)
    /\ UNCHANGED <<closes, accepted, clients>>

\* time.Sleep returns and the loop continues.
SleepDone ==
    /\ spc = "sleep"
    /\ spc' = "accept"
    /\ UNCHANGED <<tempDelay, slept, runLen, lastAccept, closes, accepted, clients>>

\* AcceptFatal where the error is taken for a temporary one without a sleep.
AcceptFatalContinues ==
    /\ spc = "accept"
    /\ lastAccept' = "fatal"
    /\ UNCHANGED <<spc, closes, tempDelay, slept, runLen, accepted, clients>>

\* Accept returns an error that is not temporary: ServeTCP returns and the
\* deferred function closes the listener.
AcceptFatal ==
    /\ spc = "accept"
    /\ spc' = "returned"
    /\ closes' = closes + 1
    /\ lastAccept' = "fatal"
    /\ UNCHANGED <<tempDelay, slept, runLen, accepted, clients>>

\* The listen loop of a client returns.
ClientListenReturns(i) ==
    /\ clients[i].st = "listening"
    /\ clients' = [clients EXCEPT ![i].st = "done"]
    /\ UNCHANGED <<spc, tempDelay, slept, runLen, lastAccept, closes, accepted>>

----------------------------------------------------------------------------
(* Package binary *)

\* The error of the failing writer.
ErrWriter == "error"

\* A writer: bytes.Buffer (fails = FALSE) or limitWrite (fails = TRUE).
NewWriter(fails) == [fails |-> fails, buf |-> <<>>]

\* w.Write(p): [err, w].
Write(w, p) ==
    IF w.fails THEN [err |-> ErrWriter, w |-> w]
    ELSE [err |-> Nil, w |-> [w EXCEPT !.buf = @ \o p]]

\* WriteUint16 with the two bytes in little-endian order.
WriteUint16LittleEndian(w, v) == Write(w, <<v % 256, (v \div 256) % 256>>)

\* WriteUint16: the two bytes of v, most significant first.
WriteUint16(w, v) == Write(w, <<(v \div 256) % 256, v % 256>>)

\* A uint32 as its two 16-bit halves: the value hi * 65536 + lo.
Uint32(hi, lo) == [hi |-> hi, lo |-> lo]

\* WriteUint32: the four bytes of v, most significant first.
WriteUint32(w, v) ==
    Write(w, <<(v.hi \div 256) % 256, v.hi % 256, (v.lo \div 256) % 256, v.lo % 256>>)

\* WriteBool: the byte 1 for true, 0 for false.
WriteBool(w, b) == Write(w, <<IF b THEN 1 ELSE 0>>)

\* WriteString: the length as by WriteUint16, then the bytes.
WriteString(w, s) == Write(w, <<(Len(s) \div 256) % 256, Len(s) % 256>> \o s)

\* The result of a Read of package binary: the error, the value read (in
\* the field of its kind) and what the reader holds afterwards.
ReadResult(err, u, b, s, r) ==
    [err |-> err, u |-> u, w |-> Uint32(0, 0), b |-> b, s |-> s, r |-> r]
ReadFailed(r) == ReadResult(ErrMalformed, 0, FALSE, <<>>, r)

\* ReadUint16: two bytes, most significant first.
ReadUint16(r) ==
    IF Len(r) < 2 THEN ReadFailed(r)
    ELSE ReadResult(Nil, r[1] * 256 + r[2], FALSE, <<>>, Drop(r, 2))

\* ReadUint32: four bytes, most significant first.
ReadUint32(r) ==
    IF Len(r) < 4 THEN ReadFailed(r)
    ELSE [ReadResult(Nil, 0, FALSE, <<>>, Drop(r, 4))
             EXCEPT !.w = Uint32(r[1] * 256 + r[2], r[3] * 256 + r[4])]

\* ReadBool: one byte, true when it is 1.
ReadBool(r) ==
    IF Len(r) < 1 THEN ReadFailed(r)
    ELSE ReadResult(Nil, 0, r[1] = 1, <<>>, Tail(r))

\* The bytes ReadString returns once it has read the length n.
ReadStringBody(n, r) ==
    IF Len(r) < n THEN ReadFailed(r)
    ELSE ReadResult(Nil, 0, FALSE, Take(r, n), Drop(r, n))

\* ReadString: the length as by ReadUint16, then that many bytes.
ReadString(r) ==
    IF Len(r) < 2 THEN ReadFailed(r)
    ELSE ReadStringBody(r[1] * 256 + r[2], Drop(r, 2))

\* The values written: [kind, u, w, b, s], the value in the field of its kind.
Value(kind, u, b, s) == [kind |-> kind, u |-> u, w |-> Uint32(0, 0), b |-> b, s |-> s]
NoValue == Value("none", 0, FALSE, <<>>)

Uint16Values == {0, 1, 255, 256, 258, 4660, 65280, 65535}
Uint32Values ==
    {Uint32(0, 0), Uint32(0, 1), Uint32(0, 255), Uint32(0, 256), Uint32(0, 65535),
     Uint32(1, 0), Uint32(256, 0), Uint32(258, 772), Uint32(65535, 65535)}

RECURSIVE StringsOfLen(_)
StringsOfLen(n) ==
    IF n = 0 THEN {<<>>}
    ELSE {<<b>> \o t : b \in {0, 49, 255}, t \in StringsOfLen(n - 1)}

StringValues == UNION {StringsOfLen(n) : n \in 0..MaxStrLen}

Values ==
    {Value("uint16", v, FALSE, <<>>) : v \in Uint16Values}
    \cup {[Value("uint32", 0, FALSE, <<>>) EXCEPT !.w = v] : v \in Uint32Values}
    \cup {Value("bool", 0, b, <<>>) : b \in BOOLEAN}
    \cup {Value("string", 0, FALSE, t) : t \in StringValues}

\* The Write of the value's kind.
WriteValue(w, x) ==
    IF x.kind = "uint16" THEN WriteUint16(w, x.u)
    ELSE IF x.kind = "uint32" THEN WriteUint32(w, x.w)
    ELSE IF x.kind = "bool" THEN WriteBool(w, x.b)
    ELSE WriteString(w, x.s)

\* The Read of a kind.
ReadValue(kind, r) ==
    IF kind = "uint16" THEN ReadUint16(r)
    ELSE IF kind = "uint32" THEN ReadUint32(r)
    ELSE IF kind = "bool" THEN ReadBool(r)
    ELSE ReadString(r)

NoWrite == [err |-> Nil, w |-> NewWriter(FALSE)]
NoRead == ReadResult(Nil, 0, FALSE, <<>>, <<>>)

\* A value is written to a buffer or to the failing writer.
BinaryWrite ==
    /\ bpc = "idle"
    /\ \E x \in Values, fails \in BOOLEAN :
         /\ bval' = x
         /\ bw' = WriteValue(NewWriter(fails), x)
    /\ bbuf' = bw'.w.buf
    /\ bpc' = "written"
    /\ UNCHANGED <<bcut, bread>>

\* The stream is truncated: bytes are cut off the end of what was written.
BinaryTruncate ==
    /\ bpc = "written"
    /\ bw.err = Nil
    /\ \E k \in 0..(Len(bbuf) - 1) : bbuf' = Take(bbuf, k)
    /\ bcut' = TRUE
    /\ bpc' = "cut"
    /\ UNCHANGED <<bval, bw, bread>>

\* The bytes are read back with the Read of the value's kind.
BinaryRead ==
    /\ bpc \in {"written", "cut"}
    /\ bw.err = Nil
    /\ bread' = ReadValue(bval.kind, bbuf)
    /\ bbuf' = bread'.r
    /\ bpc' = "read"
    /\ UNCHANGED <<bval, bw, bcut>>

----------------------------------------------------------------------------
(* Specifications *)

Init ==
    /\ pc = "idle"
    /\ src = "none"
    /\ pkt = NilConnect
    /\ raw = RawNone
    /\ wire = <<>>
    /\ res = NoRes
    /\ ackIn = NoAckIn
    /\ ack = NoAck
    /\ spc = "accept"
    /\ tempDelay = 0
    /\ slept = 0
    /\ runLen = 0
    /\ lastAccept = "none"
    /\ closes = 0
    /\ accepted = {}
    /\ clients = <<>>
    /\ bpc = "idle"
    /\ bval = NoValue
    /\ bw = NoWrite
    /\ bbuf = <<>>
    /\ bcut = FALSE
    /\ bread = NoRead

Next ==
    \/ ClientEncode /\ UNCHANGED <<svars, bvars>>
    \/ PeerSend /\ UNCHANGED <<svars, bvars>>
    \/ ServerNewConnect /\ UNCHANGED <<svars, bvars>>
    \/ ServerConnack /\ UNCHANGED <<svars, bvars>>

Spec == Init /\ [][Next]_vars

NextServer ==
    \/ AcceptOk /\ UNCHANGED <<cvars, bvars>>
    \/ AcceptTemporary /\ UNCHANGED <<cvars, bvars>>
    \/ SleepDone /\ UNCHANGED <<cvars, bvars>>
    \/ AcceptFatal /\ UNCHANGED <<cvars, bvars>>
    \/ \E i \in DOMAIN clients : ClientListenReturns(i) /\ UNCHANGED <<cvars, bvars>>

SpecServer == Init /\ [][NextServer]_vars

NextBinary ==
    \/ BinaryWrite /\ UNCHANGED <<cvars, svars>>
    \/ BinaryTruncate /\ UNCHANGED <<cvars, svars>>
    \/ BinaryRead /\ UNCHANGED <<cvars, svars>>

SpecBinary == Init /\ [][NextBinary]_vars

----------------------------------------------------------------------------
(* Properties of the CONNECT codec *)

Decoded == pc \in {"decoded", "acked"}

\* The fields a decoded packet is compared on.
SameFields(a, b) ==
    /\ a.ProtocolName = b.ProtocolName
    /\ a.ProtocolLevel = b.ProtocolLevel
    /\ a.CleanSession = b.CleanSession
    /\ a.WillFlag = b.WillFlag
    /\ a.WillQoS = b.WillQoS
    /\ a.WillRetain = b.WillRetain
    /\ a.PasswordFlag = b.PasswordFlag
    /\ a.UsernameFlag = b.UsernameFlag
    /\ a.KeepAlive = b.KeepAlive
    /\ a.ClientId = b.ClientId
    /\ a.WillTopic = b.WillTopic
    /\ a.WillMessage = b.WillMessage
    /\ a.Username = b.Username
    /\ a.Password = b.Password

\* The peer's bytes are a whole packet with the reserved fixed-header flags.
Complete(x) == x.hdrFlags = FixedHeaderFlagReserved /\ x.held = x.remain /\ x.remain = x.len

\* Decode gets as far as reading the connect-flags byte of the peer's bytes:
\* the body is all there up to that byte and the level is a supported one.
FlagsByteRead(x) ==
    /\ x.hdrFlags = FixedHeaderFlagReserved
    /\ x.held >= x.remain
    /\ x.remain >= Len(x.name) + 4
    /\ x.level \in {Version31, Version311, Version5}

\* The connect-flags byte of the peer's bytes passes the checks of Decode.
FlagsByteValid(x) ==
    /\ Bit(x.flags, 0) = 0
    /\ (Bit(x.flags, 2) = 0 => Bit(x.flags, 3) = 0 /\ Bit(x.flags, 4) = 0 /\ Bit(x.flags, 5) = 0)

\* C1: decoding the bytes Encode produced for a well-formed Connect (one
\* whose ClientId is non-empty unless CleanSession is set) succeeds and
\* yields a packet equal to it in every field compared, for each version.
C1_RoundTrip ==
    (Decoded /\ src = "client" /\ (Len(pkt.ClientId) > 0 \/ pkt.CleanSession))
        => (res.err = Nil /\ SameFields(res.c, pkt))

\* C2: NewConnect returns Malformed and no packet when the fixed-header flags
\* are not the reserved value; Decode returns Malformed whenever bit 0 of the
\* connect-flags byte it reads is 1; no CONNECT with a reserved bit set is
\* accepted.
C2_ReservedBitsRejected ==
    (Decoded /\ src = "peer") =>
        /\ (raw.hdrFlags # FixedHeaderFlagReserved
                => res.err = ErrMalformed /\ res.c = NilConnect)
        /\ (FlagsByteRead(raw) /\ Bit(raw.flags, 0) = 1 => res.err = ErrMalformed)
        /\ (raw.hdrFlags # FixedHeaderFlagReserved \/ Bit(raw.flags, 0) = 1
                => res.err # Nil /\ res.c = NilConnect /\ pc # "acked")

\* A whole CONNECT whose connect-flags byte has only the reserved bit set is
\* refused as Malformed.
C2_Witness ==
    /\ pc = "decoded" /\ src = "peer"
    /\ Complete(raw) /\ FlagsByteRead(raw)
    /\ raw.flags = 1 /\ Len(raw.cid) > 0
    /\ res.err = ErrMalformed

\* C3: Decode returns Malformed for every connect-flags byte it reads in which
\* WillFlag is 0 and WillQoS is non-zero or WillRetain is 1; every decoded
\* Connect with WillFlag false has WillQoS 0 and WillRetain false.
C3_WillFlagConsistency ==
    Decoded =>
        /\ (src = "peer" /\ FlagsByteRead(raw) /\ Bit(raw.flags, 2) = 0
              /\ (Bit(raw.flags, 3) = 1 \/ Bit(raw.flags, 4) = 1 \/ Bit(raw.flags, 5) = 1)
                => res.err = ErrMalformed)
        /\ (res.err = Nil /\ ~res.c.WillFlag => res.c.WillQoS = 0 /\ ~res.c.WillRetain)

\* A whole CONNECT with WillRetain and CleanSession but no WillFlag is
\* refused as Malformed.
C3_Witness ==
    /\ pc = "decoded" /\ src = "peer"
    /\ Complete(raw) /\ FlagsByteRead(raw)
    /\ raw.flags = 34 /\ Len(raw.cid) > 0
    /\ res.err = ErrMalformed

\* C4: Decode succeeds only for the pairs (MQTT, 4), (MQTT, 5), (MQIsdp, 3);
\* an unsupported level is refused with the unacceptable-protocol-version error.
C4_NameAndLevel ==
    Decoded =>
        /\ (res.err = Nil => <<res.c.ProtocolName, res.c.ProtocolLevel>> \in SupportedPairs)
        /\ (src = "peer" /\ Complete(raw) /\ ~(raw.level \in {Version31, Version311, Version5})
                => res.err = ErrV3UnacceptableProtocolVersion)

\* C5: the Connack has SessionPresent false whenever CleanSession is true or
\* the code is not Success, SessionPresent true exactly when CleanSession is
\* false, the session was reused and the code is Success, and it carries the
\* code and the Connect's version.
C5_SessionPresent ==
    pc = "acked" =>
        /\ (res.c.CleanSession \/ ackIn.cd # Success => ~ack.SessionPresent)
        /\ (ack.SessionPresent
              <=> (~res.c.CleanSession /\ ackIn.sessionReuse /\ ackIn.cd = Success))
        /\ ack.Code = ackIn.cd
        /\ ack.Version = res.c.Version

\* A reused session with a reason code other than Success: SessionPresent false.
C5_Witness ==
    /\ pc = "acked"
    /\ ~res.c.CleanSession /\ ackIn.sessionReuse /\ ackIn.cd # Success
    /\ ~ack.SessionPresent

\* C6 as stated: for every version, a whole CONNECT with valid flags, a
\* zero-length ClientId and CleanSession 0 fails with identifier-rejected, and a
\* zero-length ClientId is accepted only with CleanSession 1.
C6_EmptyClientIdAllVersions ==
    Decoded =>
        /\ (src = "peer" /\ Complete(raw) /\ FlagsByteRead(raw) /\ FlagsByteValid(raw)
              /\ Len(raw.cid) = 0 /\ Bit(raw.flags, 1) = 0
                => res.err = ErrV3IdentifierRejected)
        /\ (res.err = Nil /\ Len(res.c.ClientId) = 0 => res.c.CleanSession)

\* C6 as amended: for versions 3.1 and 3.1.1 a whole CONNECT with valid flags,
\* a zero-length ClientId and CleanSession 0 fails with identifier-rejected,
\* and for these versions a zero-length ClientId is accepted only with
\* CleanSession 1; for version 5.0 the decoder accepts it with CleanStart 0.
C6_EmptyClientIdVersion3 ==
    Decoded =>
        /\ (src = "peer" /\ Complete(raw) /\ FlagsByteRead(raw) /\ FlagsByteValid(raw)
              /\ Len(raw.cid) = 0 /\ Bit(raw.flags, 1) = 0
                => IF raw.level \in {Version31, Version311}
                   THEN res.err = ErrV3IdentifierRejected
                   ELSE res.err = Nil)
        /\ (res.err = Nil /\ Len(res.c.ClientId) = 0 /\ res.c.Version \in {Version31, Version311}
                => res.c.CleanSession)

\* A whole version 3.1 CONNECT with an empty ClientId and CleanSession 0 is
\* refused with identifier-rejected.
C6_Witness ==
    /\ pc = "decoded" /\ src = "peer"
    /\ Complete(raw) /\ FlagsByteValid(raw)
    /\ raw.level = Version31 /\ Len(raw.cid) = 0 /\ Bit(raw.flags, 1) = 0
    /\ res.err = ErrV3IdentifierRejected

\* C7: Decode returns Malformed when the reader holds fewer bytes than the
\* fixed header announces, and when the body ends before a field that the
\* level and the flags (both valid) require.
C7_TruncationIsMalformed ==
    (Decoded /\ src = "peer" /\ raw.hdrFlags = FixedHeaderFlagReserved) =>
        /\ (raw.held < raw.remain => res.err = ErrMalformed)
        /\ (raw.held = raw.remain /\ raw.remain < raw.len
              /\ raw.level \in {Version31, Version311, Version5} /\ FlagsByteValid(raw)
                => res.err = ErrMalformed)

\* C13: when the reader holds at least RemainLength bytes behind the fixed
\* header, Decode leaves on the reader exactly what follows the first
\* RemainLength bytes, whether it returns nil or an error and whether or
\* not the body has bytes behind its last field.
C13_StreamFraming ==
    (Decoded /\ src = "peer" /\ raw.hdrFlags = FixedHeaderFlagReserved
        /\ Len(OnReader(raw)) >= raw.remain) =>
        /\ Len(wire) = Len(OnReader(raw)) - raw.remain
        /\ wire = Drop(OnReader(raw), raw.remain)

\* Decode succeeded on a body with a byte behind its last field, and the
\* reader is at the first byte of the next packet.
C13_Witness ==
    /\ Decoded /\ src = "peer" /\ res.err = Nil
    /\ raw.remain = raw.len + 1
    /\ Len(raw.tail) = 2
    /\ wire = <<0>>

\* Decode failed on a body that ends inside a field, and the reader is at
\* the first byte behind the announced length.
C13_WitnessError ==
    /\ Decoded /\ src = "peer" /\ res.err = ErrMalformed
    /\ raw.hdrFlags = FixedHeaderFlagReserved
    /\ raw.remain < raw.len /\ raw.held > raw.len
    /\ Len(wire) = raw.held - raw.remain

----------------------------------------------------------------------------
(* Properties of the accept loop *)

\* The k-th sleep of a run of temporary errors: 5 ms doubled k - 1 times,
\* capped at 1 s.
RunDelay(k) == Min(FirstDelay * (2 ^ (k - 1)), MaxDelay)

\* C8: a temporary error never ends the loop, and the k-th sleep of every run
\* of consecutive temporary errors lasts 5 ms doubled k - 1 times, capped at
\* 1 s, which is at least 5 ms and at most 1 s.
C8_BackoffRun ==
    /\ (lastAccept = "temporary" => spc # "returned")
    /\ (spc = "sleep" => slept = RunDelay(runLen))
    /\ (spc = "sleep" => slept >= FirstDelay /\ slept <= MaxDelay)

\* C12: the first temporary error after a successful Accept is slept for
\* exactly 5 ms, whatever delay the temporary errors before that Accept
\* had reached.
C12_BackoffRestart ==
    (spc = "sleep" /\ runLen = 1 /\ Cardinality(accepted) > 0) => slept = FirstDelay

\* C9: on the first error that is not temporary ServeTCP returns and closes
\* the listener exactly once; afterwards Accept is not called and no client
\* is created; the clients created before are left as they are by the return.
C9_Termination ==
    /\ [](/\ (lastAccept = "fatal" <=> spc = "returned")
          /\ (spc = "returned" <=> closes = 1)
          /\ closes <= 1)
    /\ [][spc = "returned" =>
            /\ spc' = "returned" /\ closes' = closes
            /\ lastAccept' = lastAccept /\ accepted' = accepted
            /\ Len(clients') = Len(clients)]_vars
    /\ [][spc = "accept" /\ spc' = "returned" => clients' = clients]_vars

\* ServeTCP has returned, the listener is closed, and a client created
\* before is still listening.
C9_Witness ==
    /\ spc = "returned" /\ closes = 1 /\ lastAccept = "fatal"
    /\ \E i \in DOMAIN clients : clients[i].st = "listening"

\* C10: every connection Accept returned belongs to exactly one client, every
\* client was made for an accepted connection, and the loop can accept again
\* whatever the clients made before are doing.
C10_OneClientPerAccept ==
    /\ \A c \in accepted : Cardinality({i \in DOMAIN clients : clients[i].conn = c}) = 1
    /\ \A i \in DOMAIN clients : clients[i].conn \in accepted
    /\ Len(clients) = Cardinality(accepted)
    /\ (spc = "accept" /\ Cardinality(accepted) < MaxConns => ENABLED AcceptOk)

\* The loop is at Accept while two clients made before are both listening.
C10_Witness ==
    /\ spc = "accept" /\ lastAccept = "ok"
    /\ Len(clients) >= 2
    /\ \A i \in DOMAIN clients : clients[i].st = "listening"

----------------------------------------------------------------------------
(* Properties of package binary *)

\* The big-endian number the bytes s spell.
RECURSIVE BigEndian(_)
BigEndian(s) == IF Len(s) = 0 THEN 0 ELSE BigEndian(Take(s, Len(s) - 1)) * 256 + s[Len(s)]

\* The bytes the Write left in a buffer.
Written == bw.w.buf

\* C11: a Write to a buffer returns no error and leaves the 2 (uint16) or 4
\* (uint32, as two 16-bit halves) bytes that spell the value big-endian, the
\* byte 1 or 0 (bool), or
\* a 2-byte big-endian length followed by the bytes (string); the Read of
\* the same kind returns the value from these bytes without error; a Write
\* to a failing writer returns an error.
C11_BinaryRoundTrip ==
    bpc # "idle" =>
        /\ (bw.w.fails => bw.err # Nil)
        /\ (~bw.w.fails =>
              /\ bw.err = Nil
              /\ \A i \in 1..Len(Written) : Written[i] \in 0..255
              /\ (bval.kind = "uint16" => Len(Written) = 2 /\ BigEndian(Written) = bval.u)
              /\ (bval.kind = "uint32" =>
                    /\ Len(Written) = 4
                    /\ BigEndian(Take(Written, 2)) = bval.w.hi
                    /\ BigEndian(Drop(Written, 2)) = bval.w.lo)
              /\ (bval.kind = "bool" => Written = IF bval.b THEN <<1>> ELSE <<0>>)
              /\ (bval.kind = "string" =>
                    /\ Len(Written) = 2 + Len(bval.s)
                    /\ BigEndian(Take(Written, 2)) = Len(bval.s)
                    /\ Drop(Written, 2) = bval.s))
        /\ (bpc = "read" /\ ~bcut =>
              /\ bread.err = Nil
              /\ bread.u = bval.u /\ bread.w = bval.w
              /\ bread.b = bval.b /\ bread.s = bval.s
              /\ bread.r = <<>>)

\* The uint16 258 was written as the bytes 1, 2 and read back.
C11_Witness ==
    /\ bpc = "read" /\ ~bcut
    /\ bval.kind = "uint16" /\ bval.u = 258
    /\ Written = <<1, 2>>
    /\ bread.err = Nil /\ bread.u = 258

====
